---- MODULE Spec2Model ----
(***************************************************************************)
(* Model of day24-hail/z3_solution.py: a straight-line script that builds  *)
(* two equality constraints per hailstone over the six unknowns of the     *)
(* rock, hands them to a solver, reads one model back and prints the rock  *)
(* and the sum of its position coordinates.                                *)
(*                                                                         *)
(* Python integers are unbounded and the source's positions are of the     *)
(* order of 10^14, so positions are kept as exact multi-limb integers      *)
(* <<high, mid, low>> of base 10^6; velocities are small and kept as       *)
(* plain integers.                                                         *)
(*                                                                         *)
(* Spec runs the script on its own hailstones and on small ones; EqSpec    *)
(* runs the constraint-building loop on one small hailstone and evaluates  *)
(* the two assertions it leaves at every small assignment.                 *)
(***************************************************************************)
EXTENDS Integers, Sequences, FiniteSets

\* ------------------------------------------------------------- bounds
\* Small hailstones and rocks have every coordinate in 0..MaxCoord.
MaxCoord == 1

\* ------------------------------------------- exact integer arithmetic
Base == 1000 * 1000

\* <<h, m, l>> stands for h*Base^2 + m*Base + l; the normal form has m and l
\* in 0..Base-1 and the sign in h.
Norm(b) ==
    LET m1 == b[2] + (b[3] \div Base)
    IN  <<b[1] + (m1 \div Base), m1 % Base, b[3] % Base>>

FromInt(n) == Norm(<<0, 0, n>>)

BigAdd(a, b) == Norm(<<a[1] + b[1], a[2] + b[2], a[3] + b[3]>>)

BigSub(a, b) == Norm(<<a[1] - b[1], a[2] - b[2], a[3] - b[3]>>)

\* a * k for a plain integer k
BigScale(a, k) == Norm(<<a[1] * k, a[2] * k, a[3] * k>>)

BigNeg(a) == BigScale(a, -1)

IsNeg(a) == a[1] < 0

Zero == FromInt(0)

\* ---------------------------------------------------------- unknowns
\* px, vx = Ints('px vx') and so on: an assignment to the six unknowns is a
\* record with these fields, positions exact, velocities plain.
Unknowns == {"px", "py", "pz", "vx", "vy", "vz"}

Rock(x, y, z, a, b, c) ==
    [px |-> x, py |-> y, pz |-> z, vx |-> a, vy |-> b, vz |-> c]

\* A hailstone is the list [sx, sy, sz, ux, uy, uz].
Hail(x, y, z, a, b, c) == <<x, y, z, a, b, c>>

\* ------------------------------------------------------- constraints
\* The expression (p1 - s1) * (u2 - v2) == (p2 - s2) * (u1 - v1) handed to
\* s.add, with the names of the unknowns and the hailstone's numbers.
Equation(p1, s1, u2, v2, p2, s2, u1, v1) ==
    [p1 |-> p1, s1 |-> s1, u2 |-> u2, v2 |-> v2,
     p2 |-> p2, s2 |-> s2, u1 |-> u1, v1 |-> v1]

\* The first equation with ux and uy in each other's place:
\* (px - sx) * (ux - vy) == (py - sy) * (uy - vx).
ConstraintXYSwapped(h) ==
    Equation("px", h[1], h[4], "vy", "py", h[2], h[5], "vx")

\* The second equation written with uy where uz belongs.
ConstraintXZWithUy(h) ==
    Equation("px", h[1], h[5], "vz", "pz", h[3], h[4], "vx")

\* s.add((px - sx) * (uy - vy) == (py - sy) * (ux - vx))
ConstraintXY(h) == Equation("px", h[1], h[5], "vy", "py", h[2], h[4], "vx")

\* s.add((px - sx) * (uz - vz) == (pz - sz) * (ux - vx))
ConstraintXZ(h) == Equation("px", h[1], h[6], "vz", "pz", h[3], h[4], "vx")

\* The value of each side of an equation under an assignment r.
Lhs(e, r) == BigScale(BigSub(r[e.p1], e.s1), e.u2 - r[e.v2])

Rhs(e, r) == BigScale(BigSub(r[e.p2], e.s2), e.u1 - r[e.v1])

Holds(e, r) == Lhs(e, r) = Rhs(e, r)

\* Conjunction semantics of the solver's assertion list.
Satisfies(r, as) == \A k \in 1..Len(as) : Holds(as[k], r)

\* ----------------------------------------------------- decimal text
\* The decimal digits of a natural number, most significant first.
RECURSIVE DigitsOf(_)
DigitsOf(n) == IF n < 10 THEN <<n>> ELSE Append(DigitsOf(n \div 10), n % 10)

\* The six digits of a limb below the top one, zeros included.
Digits6(n) ==
    <<n \div 100000, (n \div 10000) % 10, (n \div 1000) % 10,
      (n \div 100) % 10, (n \div 10) % 10, n % 10>>

RECURSIVE StripZeros(_)
StripZeros(ds) ==
    IF Len(ds) > 1 /\ ds[1] = 0 THEN StripZeros(Tail(ds)) ELSE ds

\* str() of a numeral: a sign and the digits of the absolute value.
Str(b) ==
    LET a == IF IsNeg(b) THEN BigNeg(b) ELSE b
    IN  [neg |-> IsNeg(b),
         digits |-> StripZeros(DigitsOf(a[1]) \o Digits6(a[2]) \o Digits6(a[3]))]

\* The number a short run of digits stands for.
RECURSIVE NatOf(_)
NatOf(ds) ==
    IF ds = << >> THEN 0
    ELSE NatOf(SubSeq(ds, 1, Len(ds) - 1)) * 10 + ds[Len(ds)]

\* The last six digits of a text, zeros in front where it is shorter, and
\* the digits before them.
Last6(ds) ==
    [k \in 1..6 |-> IF Len(ds) - 6 + k >= 1 THEN ds[Len(ds) - 6 + k] ELSE 0]

Front(ds) == IF Len(ds) > 6 THEN SubSeq(ds, 1, Len(ds) - 6) ELSE << >>

\* int() of a decimal text, six digits to the limb.
ParseDigits(ds) ==
    <<NatOf(Front(Front(ds))), NatOf(Last6(Front(ds))), NatOf(Last6(ds))>>

ParseInt(t) ==
    IF t.neg THEN BigNeg(ParseDigits(t.digits)) ELSE ParseDigits(t.digits)

\* The text None, which holds no digit.
NoneText == [neg |-> FALSE, digits |-> << >>]

\* IntNumRef.as_long(): int(self.as_string()).
as_long(v) == ParseInt(Str(v))

\* ------------------------------------------------------------ inputs
\* hailstones = [...], the literal list of the script.
SourceHailstones ==
    << Hail(<<216, 518090, 678054>>, <<311, 610807, 965630>>,
            <<244, 665409, 335040>>, -24, -43, 118),
       Hail(<<119, 252599, 207972>>, <<265, 844340, 901442>>,
            <<404, 506989, 29618>>, 93, 9, -69),
       Hail(<<366, 376232, 895280>>, <<243, 548034, 524148>>,
            <<222, 429607, 201000>>, 18, 38, 19) >>

Coords == 0..MaxCoord

SmallHail(x, y, z, a, b, c) ==
    Hail(FromInt(x), FromInt(y), FromInt(z), a, b, c)

SmallHailstones ==
    {SmallHail(x, y, z, a, b, c) : x \in Coords, y \in Coords, z \in Coords,
                                  a \in Coords, b \in Coords, c \in Coords}

SmallRocks ==
    {Rock(FromInt(x), FromInt(y), FromInt(z), a, b, c) :
        x \in Coords, y \in Coords, z \in Coords,
        a \in Coords, b \in Coords, c \in Coords}

\* The first two hailstones of the small inputs; the third one varies.
FirstSmall == SmallHail(2, 0, 1, 0, 1, 0)

SecondSmall == SmallHail(1, 0, 1, 0, 2, 1)

SmallInputs == {<<FirstSmall, SecondSmall, h>> : h \in SmallHailstones}

Inputs == {SourceHailstones} \cup SmallInputs

\* ------------------------------------------------------------ solver
\* The solver decides the assertions over the integers; the model cuts its
\* search to a finite box of assignments: the small rocks for the small
\* inputs and, for the script's own hailstones, the box of the same size
\* whose corner is SourceCorner.
SourceCorner ==
    Rock(<<422, 644646, 660238>>, <<244, 357651, 988392>>,
         <<189, 640099, 899118>>, -260, 34, 181)

SourceRocks ==
    {Rock(BigAdd(SourceCorner.px, r.px), BigAdd(SourceCorner.py, r.py),
          BigAdd(SourceCorner.pz, r.pz), SourceCorner.vx + r.vx,
          SourceCorner.vy + r.vy, SourceCorner.vz + r.vz) : r \in SmallRocks}

Rocks(hs) == IF hs = SourceHailstones THEN SourceRocks ELSE SmallRocks

Models(as, hs) == {r \in Rocks(hs) : Satisfies(r, as)}

\* s.check(): sat with a model in reach; with none in reach the solver has
\* either shown that there is none (unsat) or given up (unknown).
CheckResults(as, hs) ==
    IF Models(as, hs) # {} THEN {"sat"} ELSE {"unsat", "unknown"}

\* A model maps the unknowns it interprets to numerals; m[x] of any other
\* unknown is None.
ModelOf(r) == [interp |-> Unknowns, value |-> r]

NoModel == [interp |-> {}, value |-> Rock(Zero, Zero, Zero, 0, 0, 0)]

\* s.model() after sat: one satisfying assignment. After unknown the solver
\* keeps whatever candidate it had, which need not satisfy anything and may
\* interpret no unknown at all. After unsat there is none (see ModelRaises).
ModelResults(v, as, hs) ==
    CASE v = "sat" -> {ModelOf(r) : r \in Models(as, hs)}
      [] v = "unknown" -> {ModelOf(r) : r \in Rocks(hs)} \cup {NoModel}
      [] OTHER -> {}

\* f"{m[x]}"
Show(mm, x) == IF x \in mm.interp
               THEN (IF x \in {"px", "py", "pz"} THEN Str(mm.value[x])
                     ELSE Str(FromInt(mm.value[x])))
               ELSE NoneText

\* The sum with a velocity component in the place of pz.
AnswerWithVelocity(mm) ==
    BigAdd(BigAdd(as_long(mm.value.px), as_long(mm.value.py)),
           as_long(FromInt(mm.value.vz)))

\* answer = m[px].as_long() + m[py].as_long() + m[pz].as_long()
AnswerOf(mm) ==
    BigAdd(BigAdd(as_long(mm.value.px), as_long(mm.value.py)),
           as_long(mm.value.pz))

\* ------------------------------------------------------------- state
VARIABLES
    hailstones,  \* the list the loop runs over
    pc,          \* the statement the script is at
    it,          \* how many hailstones the loop has taken
    assertions,  \* the solver's assertion list
    verdict,     \* the result of the solver's last check, "none" before it
    m,           \* the model read from the solver
    answer,      \* the sum
    events,      \* the solver calls and printed lines so far, in order
    probe,       \* the assignment the assertions are evaluated at (EqSpec)
    truth        \* whether each assertion holds at the probe (EqSpec)

vars ==
    <<hailstones, pc, it, assertions, verdict, m, answer, events, probe, truth>>

\* What the equation evaluation leaves alone.
eqvars == <<probe, truth>>

Event(op, arg) == [op |-> op, arg |-> arg]

StartWith(inputs) ==
    /\ hailstones \in inputs
    /\ pc = "loop"
    /\ it = 0
    /\ assertions = << >>
    /\ verdict = "none"
    /\ m = NoModel
    /\ answer = Zero
    /\ events = << >>
    /\ probe = NoModel.value
    /\ truth = << >>

Init == StartWith(Inputs)

\* for [sx, sy, sz, ux, uy, uz] in hailstones: the first s.add of the body
AddXY ==
    /\ pc = "loop"
    /\ it < Len(hailstones)
    /\ assertions' = Append(assertions, ConstraintXY(hailstones[it + 1]))
    /\ events' = Append(events, Event("add", ConstraintXY(hailstones[it + 1])))
    /\ it' = it + 1
    /\ pc' = "add_xz"
    /\ UNCHANGED <<hailstones, verdict, m, answer, eqvars>>

\* the second s.add of the body
AddXZ ==
    /\ pc = "add_xz"
    /\ assertions' = Append(assertions, ConstraintXZ(hailstones[it]))
    /\ events' = Append(events, Event("add", ConstraintXZ(hailstones[it])))
    /\ pc' = "loop"
    /\ UNCHANGED <<hailstones, it, verdict, m, answer, eqvars>>

\* The loop leaves off before the list is through.
LoopExitEarly ==
    /\ pc = "loop"
    /\ it >= Len(hailstones) - 1
    /\ pc' = "print_assertions"
    /\ UNCHANGED <<hailstones, it, assertions, verdict, m, answer, events, eqvars>>

\* the list is through
LoopExit ==
    /\ pc = "loop"
    /\ it >= Len(hailstones)
    /\ pc' = "print_assertions"
    /\ UNCHANGED <<hailstones, it, assertions, verdict, m, answer, events, eqvars>>

\* print(s.assertions())
PrintAssertions ==
    /\ pc = "print_assertions"
    /\ events' = Append(events, Event("print_assertions", assertions))
    /\ pc' = "check"
    /\ UNCHANGED <<hailstones, it, assertions, verdict, m, answer, eqvars>>

\* s.check() of print(s.check()) returns
Check ==
    /\ pc = "check"
    /\ verdict' \in CheckResults(assertions, hailstones)
    /\ events' = Append(events, Event("check", assertions))
    /\ pc' = "print_verdict"
    /\ UNCHANGED <<hailstones, it, assertions, m, answer, eqvars>>

\* s.check() raises: nothing catches it
CheckRaises ==
    /\ pc = "check"
    /\ events' = Append(events, Event("check", assertions))
    /\ pc' = "failed"
    /\ UNCHANGED <<hailstones, it, assertions, verdict, m, answer, eqvars>>

\* print(...) of print(s.check())
PrintVerdict ==
    /\ pc = "print_verdict"
    /\ events' = Append(events, Event("print_verdict", verdict))
    /\ pc' = "print_blank1"
    /\ UNCHANGED <<hailstones, it, assertions, verdict, m, answer, eqvars>>

\* print()
PrintBlank1 ==
    /\ pc = "print_blank1"
    /\ events' = Append(events, Event("print_blank", << >>))
    /\ pc' = "model"
    /\ UNCHANGED <<hailstones, it, assertions, verdict, m, answer, eqvars>>

\* m = s.model() returns
ModelRead ==
    /\ pc = "model"
    /\ m' \in ModelResults(verdict, assertions, hailstones)
    /\ events' = Append(events, Event("model", verdict))
    /\ pc' = "print_position"
    /\ UNCHANGED <<hailstones, it, assertions, verdict, answer, eqvars>>

\* m = s.model() raises "model is not available": after unsat always, after
\* unknown when the solver kept no candidate
ModelRaises ==
    /\ pc = "model"
    /\ verdict \in {"unsat", "unknown"}
    /\ events' = Append(events, Event("model", verdict))
    /\ pc' = "failed"
    /\ UNCHANGED <<hailstones, it, assertions, verdict, m, answer, eqvars>>

\* print(f"Position: ({m[px]}, {m[py]}, {m[pz]})")
PrintPosition ==
    /\ pc = "print_position"
    /\ events' = Append(events, Event("print_position",
                        <<Show(m, "px"), Show(m, "py"), Show(m, "pz")>>))
    /\ pc' = "print_velocity"
    /\ UNCHANGED <<hailstones, it, assertions, verdict, m, answer, eqvars>>

\* print(f"Velocity: ({m[vx]}, {m[vy]}, {m[vz]})")
PrintVelocity ==
    /\ pc = "print_velocity"
    /\ events' = Append(events, Event("print_velocity",
                        <<Show(m, "vx"), Show(m, "vy"), Show(m, "vz")>>))
    /\ pc' = "print_blank2"
    /\ UNCHANGED <<hailstones, it, assertions, verdict, m, answer, eqvars>>

\* print()
PrintBlank2 ==
    /\ pc = "print_blank2"
    /\ events' = Append(events, Event("print_blank", << >>))
    /\ pc' = "answer"
    /\ UNCHANGED <<hailstones, it, assertions, verdict, m, answer, eqvars>>

\* answer = ... with every m[x] a numeral
ComputeAnswer ==
    /\ pc = "answer"
    /\ {"px", "py", "pz"} \subseteq m.interp
    /\ answer' = AnswerOf(m)
    /\ pc' = "print_answer"
    /\ UNCHANGED <<hailstones, it, assertions, verdict, m, events, eqvars>>

\* answer = ... with some m[x] None: None has no as_long
AnswerRaises ==
    /\ pc = "answer"
    /\ ~ ({"px", "py", "pz"} \subseteq m.interp)
    /\ pc' = "failed"
    /\ UNCHANGED <<hailstones, it, assertions, verdict, m, answer, events, eqvars>>

\* print(f"Answer: {answer}")
PrintAnswer ==
    /\ pc = "print_answer"
    /\ events' = Append(events, Event("print_answer", Str(answer)))
    /\ pc' = "done"
    /\ UNCHANGED <<hailstones, it, assertions, verdict, m, answer, eqvars>>

Next ==
    \/ AddXY
    \/ AddXZ
    \/ LoopExit
    \/ PrintAssertions
    \/ Check
    \/ CheckRaises
    \/ PrintVerdict
    \/ PrintBlank1
    \/ ModelRead
    \/ ModelRaises
    \/ PrintPosition
    \/ PrintVelocity
    \/ PrintBlank2
    \/ ComputeAnswer
    \/ AnswerRaises
    \/ PrintAnswer

Spec == Init /\ [][Next]_vars

\* ------------------------------------------- the equations on their own
\* The constraint-building loop run on one hailstone, and the two assertions
\* it leaves evaluated at every small assignment.
EqInit == StartWith({<<h>> : h \in SmallHailstones})

Evaluate ==
    /\ pc = "print_assertions"
    /\ \E r \in SmallRocks :
          /\ probe' = r
          /\ truth' = [k \in 1..Len(assertions) |-> Holds(assertions[k], r)]
    /\ pc' = "evaluated"
    /\ UNCHANGED <<hailstones, it, assertions, verdict, m, answer, events>>

EqNext ==
    \/ AddXY
    \/ AddXZ
    \/ LoopExit
    \/ Evaluate

EqSpec == EqInit /\ [][EqNext]_vars

\* ===================================================================
\* Properties
\* ===================================================================
Ops == [k \in 1..Len(events) |-> events[k].op]

Printed(op) == \E k \in 1..Len(events) : events[k].op = op

\* p - s and u - v of a rock r and a hailstone h, by coordinate.
PosDiff(r, h) ==
    <<BigSub(r.px, h[1]), BigSub(r.py, h[2]), BigSub(r.pz, h[3])>>

VelDiff(r, h) == <<h[4] - r.vx, h[5] - r.vy, h[6] - r.vz>>

\* ---- C1 ------------------------------------------------------------
\* C1: when the satisfiability check is invoked the solver holds, for the
\* i-th hailstone (sx,sy,sz,ux,uy,uz), exactly the two assertions
\* (px - sx)*(uy - vy) = (py - sy)*(ux - vx) and
\* (px - sx)*(uz - vz) = (pz - sz)*(ux - vx), in this order, and nothing
\* else: two per hailstone, six for three hailstones.
C1_TwoPerHailstone ==
    pc = "check" =>
        /\ Len(assertions) = 2 * Len(hailstones)
        /\ Len(hailstones) = 3 => Len(assertions) = 6
        /\ \A i \in 1..Len(hailstones) :
            LET h == hailstones[i]
                xy == assertions[2 * i - 1]
                xz == assertions[2 * i]
            IN  /\ <<xy.p1, xy.s1, xy.u2, xy.v2>> = <<"px", h[1], h[5], "vy">>
                /\ <<xy.p2, xy.s2, xy.u1, xy.v1>> = <<"py", h[2], h[4], "vx">>
                /\ <<xz.p1, xz.s1, xz.u2, xz.v2>> = <<"px", h[1], h[6], "vz">>
                /\ <<xz.p2, xz.s2, xz.u1, xz.v1>> = <<"pz", h[3], h[4], "vx">>

\* The check is about to be invoked on the script's own three hailstones.
C1_Witness ==
    pc = "check" /\ hailstones = SourceHailstones /\ Len(assertions) = 6

\* ---- C3 ------------------------------------------------------------
\* The residual lhs - rhs of the two equations of hailstone h at rock r,
\* written out from the claim.
ResidualXY(r, h) ==
    BigSub(BigScale(BigSub(r.px, h[1]), h[5] - r.vy),
           BigScale(BigSub(r.py, h[2]), h[4] - r.vx))

ResidualXZ(r, h) ==
    BigSub(BigScale(BigSub(r.px, h[1]), h[6] - r.vz),
           BigScale(BigSub(r.pz, h[3]), h[4] - r.vx))

C4_AnswerIsPositionSum ==
    \A k \in 1..Len(events) :
        events[k].op = "print_answer" =>
            \E j \in 1..(k - 1) :
                /\ events[j].op = "print_position"
                /\ \A x \in 1..3 : events[j].arg[x] # NoneText
                /\ ParseInt(events[k].arg) =
                      BigAdd(BigAdd(ParseInt(events[j].arg[1]),
                                    ParseInt(events[j].arg[2])),
                             ParseInt(events[j].arg[3]))

\* An answer was printed for a rock whose pz and vz differ.
C4_Witness == pc = "done" /\ Printed("print_answer") /\ m.value.pz # FromInt(m.value.vz)

\* ---- C8 ------------------------------------------------------------
\* The order of the script's events for n hailstones.
RECURSIVE Adds(_)
Adds(n) == IF n = 0 THEN << >> ELSE <<"add", "add">> \o Adds(n - 1)

ScriptOrder(n) ==
    Adds(n) \o <<"print_assertions", "check", "print_verdict", "print_blank",
                 "model", "print_position", "print_velocity", "print_blank",
                 "print_answer">>

\* C8: the events of a run are, in order and each once, the additions of the
\* constraints, the print of the list, the check, the print of its verdict,
\* the read of the model, the prints of position, velocity and answer: what
\* has happened so far is always an initial part of that order, and a run
\* that ended normally has gone through all of it.
C8_FixedOrder ==
    /\ Len(Ops) <= Len(ScriptOrder(Len(hailstones)))
    /\ Ops = SubSeq(ScriptOrder(Len(hailstones)), 1, Len(Ops))
    /\ pc = "done" => Ops = ScriptOrder(Len(hailstones))

\* A run that ended normally.
C8_Witness == pc = "done" /\ Len(events) = 15

\* ---- C2 ------------------------------------------------------------
\* Whether a = t*A, coordinate by coordinate, for some real t >= 0: A is
\* zero and so is a, or a is parallel to A and points the same way.
SameWay(a, A) ==
    /\ A > 0 => ~ IsNeg(a)
    /\ A < 0 => (IsNeg(a) \/ a = Zero)
    /\ A = 0 => a = Zero

MeetsLater(r, h) ==
    LET a == PosDiff(r, h)
        A == VelDiff(r, h)
    IN  /\ \A j \in 1..3 : \A k \in 1..3 :
              BigScale(a[j], A[k]) = BigScale(a[k], A[j])
        /\ \A k \in 1..3 : SameWay(a[k], A[k])

\* The model the solver returned for a system it found satisfiable.
SatModelRead == verdict = "sat" /\ pc = "print_position"

AtTimeFromX(r, h, k) ==
    LET p == <<r.px, r.py, r.pz>>
        v == <<r.vx, r.vy, r.vz>>
        a == BigSub(r.px, h[1])
        A == h[4] - r.vx
    IN  BigAdd(BigScale(p[k], A), BigScale(a, v[k])) =
        BigAdd(BigScale(h[k], A), BigScale(a, h[3 + k]))

Cross(u, w) ==
    <<u[2] * w[3] - u[3] * w[2], u[3] * w[1] - u[1] * w[3],
      u[1] * w[2] - u[2] * w[1]>>

Velocity(h) == <<h[4], h[5], h[6]>>

PairwiseNonParallel(hs) ==
    \A i \in 1..Len(hs) : \A j \in 1..Len(hs) :
        i # j => Cross(Velocity(hs[i]), Velocity(hs[j])) # <<0, 0, 0>>

\* C5 as stated: for pairwise non-parallel hailstones the six constraints
\* admit at most one assignment, so the model read is the only one.
C5_UniqueModel ==
    SatModelRead /\ PairwiseNonParallel(hailstones) =>
        \A r \in Models(assertions, hailstones) : r = m.value

\* ---- C6 ------------------------------------------------------------
SameVx(hs) == \A i \in 1..Len(hs) : hs[i][4] = hs[1][4]

\* C6 as stated: on three hailstones of one and the same x-velocity the
\* check does not report sat, and no run ends with a position, a velocity
\* and an answer printed from a model of the system.
C6_DegenerateDetected ==
    SameVx(hailstones) =>
        /\ verdict # "sat"
        /\ ~ (pc = "done" /\ Printed("print_position")
              /\ Printed("print_velocity") /\ Printed("print_answer"))

\* ---- C7 ------------------------------------------------------------
Count(op) == Cardinality({k \in 1..Len(events) : events[k].op = op})

\* C7 as stated: after a verdict of unsat or unknown, or a failure of the
\* solver, the run is over: no second check, and no position, velocity or
\* answer line.
C7_FatalWithoutOutput ==
    /\ Count("check") <= 1
    /\ (verdict \in {"unsat", "unknown"} \/ (Printed("check") /\ verdict = "none")) =>
          /\ ~ Printed("print_position")
          /\ ~ Printed("print_velocity")
          /\ ~ Printed("print_answer")

\* ---- C9 ------------------------------------------------------------
\* How far the times n/d tried below reach: a time at which a small rock
\* meets a small hailstone is a difference of positions over a difference
\* of velocities, both within MaxCoord.
TimeBound == MaxCoord

\* Rock r and hailstone h are at the same point at the time t = n/d:
\* pk + t*vk = sk + t*uk in x, y and z, multiplied by d.
MeetsAt(r, h, n, d) ==
    /\ BigAdd(BigScale(r.px, d), FromInt(n * r.vx)) =
       BigAdd(BigScale(h[1], d), FromInt(n * h[4]))
    /\ BigAdd(BigScale(r.py, d), FromInt(n * r.vy)) =
       BigAdd(BigScale(h[2], d), FromInt(n * h[5]))
    /\ BigAdd(BigScale(r.pz, d), FromInt(n * r.vz)) =
       BigAdd(BigScale(h[3], d), FromInt(n * h[6]))

Meets(r, h) ==
    \E d \in 1..TimeBound : \E n \in (-TimeBound)..TimeBound : MeetsAt(r, h, n, d)

Evaluated == pc = "evaluated" /\ Len(truth) = 2

\* C9: a rock that is at the same point as the hailstone at some time t
\* satisfies both constraints emitted for that hailstone.
C9_NecessaryEncoding ==
    Evaluated /\ Meets(probe, hailstones[1]) => truth[1] /\ truth[2]

\* A rock that meets the hailstone at a time other than 0, away from it at
\* time 0 in all three coordinates.
C9_Witness ==
    /\ Evaluated
    /\ \E d \in 1..TimeBound : \E n \in (-TimeBound)..TimeBound :
          n # 0 /\ MeetsAt(probe, hailstones[1], n, d)
    /\ \A k \in 1..3 : PosDiff(probe, hailstones[1])[k] # Zero

\* ---- C10 -----------------------------------------------------------
\* The equation of y and z the script leaves out:
\* (py - sy)*(uz - vz) = (pz - sz)*(uy - vy).
HoldsYZ(r, h) ==
    BigScale(BigSub(r.py, h[2]), h[6] - r.vz) =
    BigScale(BigSub(r.pz, h[3]), h[5] - r.vy)

====
